---------------------------- MODULE Spec2Model ----------------------------
(***************************************************************************)
(* Birth-date / age normalisation of senator-ages (wiki_utils.py,          *)
(* date_utils.py).  Texts are TLA+ strings; positions inside the Python    *)
(* helpers are 0-based as in Python.  Every parser is a pure function of   *)
(* its text (and of what the external dateutil parser answers); every age  *)
(* operation is a pure function of its argument and of the wall clock.     *)
(***************************************************************************)
EXTENDS Integers, Sequences, FiniteSets, TLC

VARIABLES op, arg, gen, calls, handed, parsed, result, birth, today, prev

vars == <<op, arg, gen, calls, handed, parsed, result, birth, today, prev>>

-----------------------------------------------------------------------------
(* Python str primitives.                                                  *)

Digits == {"0", "1", "2", "3", "4", "5", "6", "7", "8", "9"}

Whitespace == {" ", "\t", "\n"}

\* s[i] for a 0-based index 0 <= i < len(s)
Ch(s, i) == SubSeq(s, i + 1, i + 1)

startswith(s, p) == Len(s) >= Len(p) /\ SubSeq(s, 1, Len(p)) = p

isdigit(s) == Len(s) > 0 /\ \A i \in 0..(Len(s) - 1) : Ch(s, i) \in Digits

\* a slice bound as Python clamps it
Clamp(k, n) == IF k < 0 THEN (IF k + n < 0 THEN 0 ELSE k + n)
               ELSE IF k > n THEN n ELSE k

\* s[a:b]
Slice(s, a, b) ==
    LET lo == Clamp(a, Len(s))
        hi == Clamp(b, Len(s))
    IN IF lo >= hi THEN "" ELSE SubSeq(s, lo + 1, hi)

\* s.find(c, start) for a one-character c: the least index >= start, or -1
find(s, c, start) ==
    LET lo   == Clamp(start, Len(s))
        hits == {i \in lo..(Len(s) - 1) : Ch(s, i) = c}
    IN IF start > Len(s) \/ hits = {} THEN -1
       ELSE CHOOSE i \in hits : \A k \in hits : i <= k

RECURSIVE lstrip(_)
lstrip(s) == IF Len(s) > 0 /\ Ch(s, 0) \in Whitespace THEN lstrip(Tail(s)) ELSE s

RECURSIVE rstrip(_)
rstrip(s) == IF Len(s) > 0 /\ Ch(s, Len(s) - 1) \in Whitespace
             THEN rstrip(SubSeq(s, 1, Len(s) - 1)) ELSE s

strip(s) == rstrip(lstrip(s))

\* s.replace(old, ""): every non-overlapping occurrence, left to right
RECURSIVE replace(_, _)
replace(s, old) ==
    IF Len(s) < Len(old) THEN s
    ELSE IF startswith(s, old) THEN replace(Slice(s, Len(old), Len(s)), old)
    ELSE Ch(s, 0) \o replace(Tail(s), old)

DigitValue(c) ==
    CASE c = "0" -> 0 [] c = "1" -> 1 [] c = "2" -> 2 [] c = "3" -> 3
      [] c = "4" -> 4 [] c = "5" -> 5 [] c = "6" -> 6 [] c = "7" -> 7
      [] c = "8" -> 8 [] c = "9" -> 9

\* int(s) for a text of decimal digits
RECURSIVE int(_)
int(s) == IF Len(s) = 0 THEN 0
          ELSE 10 * int(SubSeq(s, 1, Len(s) - 1)) + DigitValue(Ch(s, Len(s) - 1))

\* whether int(s) succeeds: surrounding whitespace and one sign are accepted
IntOk(s) ==
    LET t == strip(s)
        u == IF Len(t) > 0 /\ Ch(t, 0) \in {"+", "-"} THEN Tail(t) ELSE t
    IN isdigit(u)

IntOf(s) ==
    LET t == strip(s)
    IN IF Len(t) > 0 /\ Ch(t, 0) = "-" THEN 0 - int(Tail(t))
       ELSE IF Len(t) > 0 /\ Ch(t, 0) = "+" THEN int(Tail(t))
       ELSE int(t)

DigitChar(k) ==
    CASE k = 0 -> "0" [] k = 1 -> "1" [] k = 2 -> "2" [] k = 3 -> "3"
      [] k = 4 -> "4" [] k = 5 -> "5" [] k = 6 -> "6" [] k = 7 -> "7"
      [] k = 8 -> "8" [] k = 9 -> "9"

\* str(n) for n >= 0
RECURSIVE str(_)
str(n) == IF n < 10 THEN DigitChar(n) ELSE str(n \div 10) \o DigitChar(n % 10)

-----------------------------------------------------------------------------
(* Regular expressions of the parsers, as re.search runs them: the         *)
(* leftmost start wins, \d+ is greedy.                                     *)

\* the index just past the maximal digit run starting at i (i itself if none)
RECURSIVE RunEnd(_, _)
RunEnd(s, i) == IF i < Len(s) /\ Ch(s, i) \in Digits THEN RunEnd(s, i + 1) ELSE i

\* \d{4}\|\d+\|\d+ matched at i: the index just past the match, or -1.
\* Each \d+ is followed by a non-digit (or by nothing), so greedy matching
\* with backtracking can only end a run where the run ends when a literal
\* follows; the last \d+ is greedy and takes the whole run.
YmdAt(s, i) ==
    LET m0 == i + 5
        m1 == RunEnd(s, m0)
        d0 == m1 + 1
        d1 == RunEnd(s, d0)
    IN IF /\ i + 4 < Len(s)
          /\ isdigit(Slice(s, i, i + 4))
          /\ Ch(s, i + 4) = "|"
          /\ m1 > m0
          /\ m1 < Len(s)
          /\ Ch(s, m1) = "|"
          /\ d1 > d0
       THEN d1 ELSE -1

\* the three |-separated integers of a matched year|month|day group
SplitYmd(t) ==
    LET p == find(t, "|", 0)
        q == find(t, "|", p + 1)
    IN [y |-> int(Slice(t, 0, p)),
        m |-> int(Slice(t, p + 1, q)),
        d |-> int(Slice(t, q + 1, Len(t)))]

NoMatch == [found |-> FALSE, g1 |-> "", g2 |-> ""]

\* (\d{4}\|\d+\|\d+)[\}\|] matched at i
BdaAt(s, i) ==
    LET e == YmdAt(s, i)
    IN IF e # -1 /\ e < Len(s) /\ Ch(s, e) \in {"}", "|"}
       THEN [found |-> TRUE, g1 |-> Slice(s, i, e), g2 |-> ""]
       ELSE NoMatch

\* (\d+)\s?\|(\d{4}\|\d+\|\d+) matched at i; optSpace tells whether the
\* pattern has the \s? of parse_birth_based_on_age_as_of
AgeYmdAt(s, i, optSpace) ==
    LET a1 == RunEnd(s, i)
        b  == IF optSpace /\ a1 < Len(s) /\ Ch(s, a1) \in Whitespace
              THEN a1 + 1 ELSE a1
        e  == IF b < Len(s) /\ Ch(s, b) = "|" THEN YmdAt(s, b + 1) ELSE -1
    IN IF a1 > i /\ e # -1
       THEN [found |-> TRUE, g1 |-> Slice(s, i, a1), g2 |-> Slice(s, b + 1, e)]
       ELSE NoMatch

\* age \d+ matched at i
WikiAgeAt(s, i) ==
    LET e == RunEnd(s, i + 4)
    IN IF Slice(s, i, i + 4) = "age " /\ e > i + 4
       THEN [found |-> TRUE, g1 |-> Slice(s, i, e), g2 |-> ""]
       ELSE NoMatch

\* pattern.search(s): the match at the least start index
RECURSIVE SearchBda(_, _)
SearchBda(s, i) ==
    IF i >= Len(s) THEN NoMatch
    ELSE IF BdaAt(s, i).found THEN BdaAt(s, i) ELSE SearchBda(s, i + 1)

RECURSIVE SearchAgeYmd(_, _, _)
SearchAgeYmd(s, i, optSpace) ==
    IF i >= Len(s) THEN NoMatch
    ELSE IF AgeYmdAt(s, i, optSpace).found THEN AgeYmdAt(s, i, optSpace)
    ELSE SearchAgeYmd(s, i + 1, optSpace)

RECURSIVE SearchWikiAge(_, _)
SearchWikiAge(s, i) ==
    IF i >= Len(s) THEN NoMatch
    ELSE IF WikiAgeAt(s, i).found THEN WikiAgeAt(s, i) ELSE SearchWikiAge(s, i + 1)

-----------------------------------------------------------------------------
(* datetime: the proleptic Gregorian calendar of the standard library.     *)

IsLeap(y) == y % 4 = 0 /\ (y % 100 # 0 \/ y % 400 = 0)

DaysInMonth(y, m) ==
    IF m = 2 THEN (IF IsLeap(y) THEN 29 ELSE 28)
    ELSE IF m \in {4, 6, 9, 11} THEN 30 ELSE 31

DaysBeforeYear(y) ==
    (y - 1) * 365 + (y - 1) \div 4 - (y - 1) \div 100 + (y - 1) \div 400

RECURSIVE DaysBeforeMonth(_, _)
DaysBeforeMonth(y, m) ==
    IF m = 1 THEN 0 ELSE DaysBeforeMonth(y, m - 1) + DaysInMonth(y, m - 1)

\* date.toordinal(): 0001-01-01 is day 1
Ordinal(dt) == DaysBeforeYear(dt.y) + DaysBeforeMonth(dt.y, dt.m) + dt.d

\* (a - b).days: timedelta normalises to 0 <= seconds < 86400, borrowing a
\* day when the seconds of the difference are negative, so the day count is
\* the floor of the difference
DeltaDays(a, b) ==
    (Ordinal(a) - Ordinal(b)) - (IF a.sec - b.sec < 0 THEN 1 ELSE 0)

(* What an operation hands back: a datetime, an age, None, or the exception *)
(* it raised.                                                               *)
DateR(y, m, d, sec) ==
    [tag |-> "date", y |-> y, m |-> m, d |-> d, sec |-> sec, age |-> 0, err |-> ""]

AgeR(n) ==
    [tag |-> "age", y |-> 0, m |-> 0, d |-> 0, sec |-> 0, age |-> n, err |-> ""]

NoneR == [tag |-> "none", y |-> 0, m |-> 0, d |-> 0, sec |-> 0, age |-> 0, err |-> ""]

Raise(e) ==
    [tag |-> "error", y |-> 0, m |-> 0, d |-> 0, sec |-> 0, age |-> 0, err |-> e]

\* datetime(year=y, month=m, day=d): ValueError outside the calendar
\* (MINYEAR is 1, MAXYEAR is 9999)
datetime(y, m, d) ==
    IF /\ y >= 1 /\ y <= 9999
       /\ m >= 1 /\ m <= 12
       /\ d >= 1 /\ d <= DaysInMonth(y, m)
    THEN DateR(y, m, d, 0)
    ELSE Raise("ValueError")

-----------------------------------------------------------------------------
(* wiki_utils.py: the dialect parsers.  Each returns what it returns and   *)
(* the texts it handed to dateutil's parse; g is what parse answers.       *)

Out(r, h) == [res |-> r, handed |-> h]

\* as parse_birth_date_and_age, with month and day taken in the other order
parse_birth_date_and_age_day_first(birthday, g) ==
    LET m == SearchBda(birthday, 0)
        i == find(birthday, "|", 0)
        j == find(birthday, "}", i)
        f == SplitYmd(m.g1)
    IN IF ~m.found
       THEN IF i = -1 THEN Out(Raise("ValueError"), <<>>)
            ELSE IF j = -1 THEN Out(Raise("ValueError"), <<>>)
            ELSE Out(g, <<strip(Slice(birthday, i + 1, j))>>)
       ELSE Out(datetime(f.y, f.d, f.m), <<>>)

\* as parse_birth_date_and_age, slicing from the | itself: birthday[i: j]
parse_birth_date_and_age_slice_from_bar(birthday, g) ==
    LET m == SearchBda(birthday, 0)
        i == find(birthday, "|", 0)
        j == find(birthday, "}", i)
        f == SplitYmd(m.g1)
    IN IF ~m.found
       THEN IF i = -1 THEN Out(Raise("ValueError"), <<>>)
            ELSE IF j = -1 THEN Out(Raise("ValueError"), <<>>)
            ELSE Out(g, <<strip(Slice(birthday, i, j))>>)
       ELSE Out(datetime(f.y, f.m, f.d), <<>>)

parse_birth_date_and_age(birthday, g) ==
    LET m == SearchBda(birthday, 0)
        i == find(birthday, "|", 0)
        j == find(birthday, "}", i)
        f == SplitYmd(m.g1)
    IN IF ~m.found
       THEN IF i = -1 THEN Out(Raise("ValueError"), <<>>)
            ELSE IF j = -1 THEN Out(Raise("ValueError"), <<>>)
            ELSE Out(g, <<strip(Slice(birthday, i + 1, j))>>)
       ELSE Out(datetime(f.y, f.m, f.d), <<>>)

parse_birth_year_and_age(birthday) ==
    LET i == find(birthday, "|", 0)
        j == find(birthday, "}", i)
        t == Slice(birthday, i + 1, j)
    IN IF i = -1 THEN Out(Raise("ValueError"), <<>>)
       ELSE IF j = -1 THEN Out(Raise("ValueError"), <<>>)
       ELSE IF ~IntOk(t) THEN Out(Raise("ValueError"), <<>>)
       ELSE Out(datetime(IntOf(t), 1, 1), <<>>)

\* as parse_birth_based_on_age_as_of, adding the age to the year
parse_birth_based_on_age_as_of_added(birth_date) ==
    LET m   == SearchAgeYmd(birth_date, 0, TRUE)
        age == int(m.g1)
        f   == SplitYmd(m.g2)
    IN IF ~m.found THEN Out(Raise("Exception"), <<>>)
       ELSE Out(datetime(f.y + age, f.m, f.d), <<>>)

parse_birth_based_on_age_as_of(birth_date) ==
    LET m   == SearchAgeYmd(birth_date, 0, TRUE)
        age == int(m.g1)
        f   == SplitYmd(m.g2)
    IN IF ~m.found THEN Out(Raise("Exception"), <<>>)
       ELSE Out(datetime(f.y - age, f.m, f.d), <<>>)

\* as parse_rest, reading the year from birthday[1:]
parse_rest_short_year(birthday, g) ==
    IF Len(birthday) = 4 /\ isdigit(birthday)
    THEN Out(datetime(int(Slice(birthday, 1, 4)), 1, 1), <<>>)
    ELSE IF startswith(birthday, "{{circa")
    THEN LET i == find(birthday, "|", 0)
             j == find(birthday, "}", i)
             t == Slice(birthday, i + 1, j)
         IN IF ~IntOk(t) THEN Out(Raise("ValueError"), <<>>)
            ELSE Out(datetime(IntOf(t), 1, 1), <<>>)
    ELSE IF startswith(birthday, "c. ")
    THEN Out(g, <<replace(birthday, "c. ")>>)
    ELSE Out(g, <<birthday>>)

parse_rest(birthday, g) ==
    IF Len(birthday) = 4 /\ isdigit(birthday)
    THEN Out(datetime(int(birthday), 1, 1), <<>>)
    ELSE IF startswith(birthday, "{{circa")
    THEN LET i == find(birthday, "|", 0)
             j == find(birthday, "}", i)
             t == Slice(birthday, i + 1, j)
         IN IF ~IntOk(t) THEN Out(Raise("ValueError"), <<>>)
            ELSE Out(datetime(IntOf(t), 1, 1), <<>>)
    ELSE IF startswith(birthday, "c. ")
    THEN Out(g, <<replace(birthday, "c. ")>>)
    ELSE Out(g, <<birthday>>)

parse_bbad(birth_date) ==
    LET m   == SearchAgeYmd(birth_date, 0, FALSE)
        age == int(m.g1)
        f   == SplitYmd(m.g2)
    IN IF ~m.found THEN Out(Raise("AssertionError"), <<>>)
       ELSE Out(datetime(f.y - age, f.m, f.d), <<>>)

\* whether sub occurs in s
RECURSIVE contains(_, _)
contains(s, sub) ==
    IF Len(s) < Len(sub) THEN FALSE
    ELSE startswith(s, sub) \/ contains(Tail(s), sub)

\* as Dialect, with the Bbad macro looked for anywhere in the text, first
Dialect_bbad_anywhere(birth_date) ==
    IF contains(birth_date, "{{Bbad")
    THEN "parse_bbad"
    ELSE IF \/ startswith(birth_date, "{{birth date and age")
            \/ startswith(birth_date, "{{Birth date and age")
            \/ startswith(birth_date, "{{Birth-date and age")
            \/ startswith(birth_date, "{{nowrap|birth date and age")
    THEN "parse_birth_date_and_age"
    ELSE IF \/ startswith(birth_date, "{{birth based on age as of date")
            \/ startswith(birth_date, "{{Birth based on age as of date")
    THEN "parse_birth_based_on_age_as_of"
    ELSE IF \/ startswith(birth_date, "{{birth year and age")
            \/ startswith(birth_date, "{{Birth year and age")
    THEN "parse_birth_year_and_age"
    ELSE "parse_rest"

\* the if/elif chain of extract_birthday_from_infobox_macro: the parser called
Dialect(birth_date) ==
    IF \/ startswith(birth_date, "{{birth date and age")
       \/ startswith(birth_date, "{{Birth date and age")
       \/ startswith(birth_date, "{{Birth-date and age")
       \/ startswith(birth_date, "{{nowrap|birth date and age")
    THEN "parse_birth_date_and_age"
    ELSE IF \/ startswith(birth_date, "{{birth based on age as of date")
            \/ startswith(birth_date, "{{Birth based on age as of date")
    THEN "parse_birth_based_on_age_as_of"
    ELSE IF \/ startswith(birth_date, "{{birth year and age")
            \/ startswith(birth_date, "{{Birth year and age")
    THEN "parse_birth_year_and_age"
    ELSE IF startswith(birth_date, "{{Bbad")
    THEN "parse_bbad"
    ELSE "parse_rest"

\* the parser of that name applied to the text
Apply(parser, text, g) ==
    CASE parser = "parse_birth_date_and_age"       -> parse_birth_date_and_age(text, g)
      [] parser = "parse_birth_based_on_age_as_of" -> parse_birth_based_on_age_as_of(text)
      [] parser = "parse_birth_year_and_age"       -> parse_birth_year_and_age(text)
      [] parser = "parse_bbad"                     -> parse_bbad(text)
      [] parser = "parse_rest"                     -> parse_rest(text, g)

-----------------------------------------------------------------------------
(* date_utils.py: the age operations.  365.25 days are 1461 quarter days,  *)
(* so days / 365.25 is the rational 4 * days / 1461; the float operations  *)
(* of the code are exact on it (365.25 is a binary fraction, and a         *)
(* quotient that is not an integer is at least 1/1461 away from one).      *)

QuarterDaysPerYear == 1461

RetirementAge == 75

RetirementWindow == 50

\* int(n / d) for d > 0: truncation toward zero
Trunc(n, d) == IF n >= 0 THEN n \div d ELSE 0 - ((0 - n) \div d)

\* x // 365.25 for an integer x: the floor
FloorYears(days) == (4 * days) \div QuarterDaysPerYear

Dt(y, m, d, sec) == [kind |-> "date", y |-> y, m |-> m, d |-> d, sec |-> sec]

NoDt(kind) == [kind |-> kind, y |-> 0, m |-> 0, d |-> 0, sec |-> 0]

\* as get_age_from_birthday, with int(days / 365.25): truncation, not floor
get_age_from_birthday_truncating(dt, now) ==
    IF dt.kind # "date" THEN NoneR
    ELSE AgeR(Trunc(4 * DeltaDays(now, dt), QuarterDaysPerYear))

\* as get_age_from_birthday, with (dt - today)
get_age_from_birthday_reversed(dt, now) ==
    IF dt.kind # "date" THEN NoneR
    ELSE AgeR(FloorYears(DeltaDays(dt, now)))

get_age_from_birthday(dt, now) ==
    IF dt.kind # "date" THEN NoneR
    ELSE AgeR(FloorYears(DeltaDays(now, dt)))

\* as calculate_age_from_year, with (dt - today)
calculate_age_from_year_reversed(born_year, now) ==
    LET dt == datetime(born_year, 1, 1)
    IN IF dt.tag = "error" THEN dt
       ELSE AgeR(FloorYears(DeltaDays(dt, now)))

calculate_age_from_year(born_year, now) ==
    LET dt == datetime(born_year, 1, 1)
    IN IF dt.tag = "error" THEN dt
       ELSE AgeR(FloorYears(DeltaDays(now, dt)))

\* as age_from_mandatory_retirement_date, with >= 0 and <= 50
age_from_mandatory_retirement_date_inclusive(g, now) ==
    LET days == DeltaDays(g, now)
    IN IF g.tag = "error" THEN g
       ELSE IF ~(4 * days >= 0 /\ 4 * days <= RetirementWindow * QuarterDaysPerYear)
       THEN Raise("AssertionError")
       ELSE AgeR(Trunc(RetirementAge * QuarterDaysPerYear - 4 * days, QuarterDaysPerYear))

\* g is what parse(mandatory_retirement_date) answers
age_from_mandatory_retirement_date(g, now) ==
    LET days == DeltaDays(g, now)
    IN IF g.tag = "error" THEN g
       ELSE IF ~(4 * days > 0 /\ 4 * days < RetirementWindow * QuarterDaysPerYear)
       THEN Raise("AssertionError")
       ELSE AgeR(Trunc(RetirementAge * QuarterDaysPerYear - 4 * days, QuarterDaysPerYear))

extract_age_from_wikitable(isStr, born_str) ==
    LET m == SearchWikiAge(born_str, 0)
    IN IF ~isStr THEN Raise("AssertionError")
       ELSE IF ~m.found THEN Raise("AssertionError")
       ELSE AgeR(int(replace(m.g1, "age ")))

-----------------------------------------------------------------------------
(* The inputs.  A text is built from the fields it is meant to carry, so   *)
(* that what a parser reads back can be compared with what was written.    *)

\* how many further |-separated parameters a birth-date-and-age macro carries
MaxExtraParams == 1

\* how many years the wall clock ranges over
ClockYears == 2

RECURSIVE Pad(_, _)
Pad(t, w) == IF Len(t) >= w THEN t ELSE Pad("0" \o t, w)

BdaPrefixes == {"{{birth date and age", "{{Birth date and age",
                "{{Birth-date and age", "{{nowrap|birth date and age"}

AsOfPrefixes == {"{{birth based on age as of date", "{{Birth based on age as of date"}

YearPrefixes == {"{{birth year and age", "{{Birth year and age"}

BbadPrefixes == {"{{Bbad"}

ExtraParams == {"df=y", "2001|9|11"}

RECURSIVE Tails(_)
Tails(k) == IF k = 0 THEN {"}}"}
            ELSE {"|" \o e \o t : e \in ExtraParams, t \in Tails(k - 1)}

BdaTails == UNION {Tails(k) : k \in 0..MaxExtraParams}

GenYears == {0, 2023, 2024}

GenMonths == {2, 12, 13}

GenDays == {4, 29, 31}

GenAges == {0, 1, 4, 2024}

BornYears == {0, 1, 1950, 2023, 2024, 2025, 2026, 2030, 9999, 10000}

PlainYears == {0, 1, 31, 950, 999, 1000, 1950, 9999}

FreeTexts ==
    {"", "195", "19500", "195x", "March 4, 1950", "Dec. 1950",
     "c. 1950", "c. Dec. 1950", "c. c. 1900", "c.1950",
     "{{circa|1950}}", "{{circa}}", "{{circa|x}}", "{{circa|1950",
     "{{birth date and age}}", "{{birth date and age|not-a-number}}",
     "{{birth date and age| March 4, 1950 }}", "{{Birth date and age|1950|3",
     "{{birth date and age|df=yes|1950|3|4}}", "{{birth date and age|19500|3|4}}",
     "{{Birth date and age|{{Bbad|73|2023|3|4}}}}",
     "{{Birth date and age|{{birth year and age|1950}}}}",
     "{{nowrap|birth date and age|March 1950}}",
     "{{Bbad}}", "{{Bbad|x|2023|3|4}}", "{{Bbad|73|202|3|4}}", "{{Bbad|73 |2023|3|4}}",
     "{{birth based on age as of date}}", "{{birth based on age as of date|73|2023|3}}",
     "{{birth based on age as of date|73 |2023|3|4}}",
     "{{birth year and age}}", "{{birth year and age|x}}", "{{birth year and age| 1950 }}",
     "{{birth year and age|1950|73}}",
     "(1950-03-04) March 4, 1950 (age 73)", "age 0", "(age 73) (age 5)", "age x",
     "page 12", "aged 73"}

Gen(kind, pfx, A, Y, M, D, pad, tail) ==
    [kind |-> kind, pfx |-> pfx, A |-> A, Y |-> Y, M |-> M, D |-> D,
     pad |-> pad, tail |-> tail]

GenInputs ==
         {Gen("bda", p, 0, Y, M, D, z, t) :
             p \in BdaPrefixes, Y \in GenYears, M \in GenMonths, D \in GenDays,
             z \in BOOLEAN, t \in BdaTails}
    \cup {Gen(k, p, A, Y, M, D, FALSE, "}}") :
             k \in {"asof"}, p \in AsOfPrefixes, A \in GenAges,
             Y \in GenYears, M \in GenMonths, D \in GenDays}
    \cup {Gen(k, p, A, Y, M, D, FALSE, "}}") :
             k \in {"bbad"}, p \in BbadPrefixes, A \in GenAges,
             Y \in GenYears, M \in GenMonths, D \in GenDays}
    \cup {Gen("year", p, 0, Y, 0, 0, FALSE, "}}") : p \in YearPrefixes, Y \in GenYears}
    \cup {Gen("plain", "", 0, Y, 0, 0, FALSE, "") : Y \in PlainYears}
    \cup {Gen("free", "", 0, 0, 0, 0, FALSE, t) : t \in FreeTexts}
    \cup {Gen("none", "", 0, 0, 0, 0, FALSE, "")}

\* the arguments of the age operations: a datetime, a year, a date text
BirthdayGen == Gen("birthday", "", 0, 0, 0, 0, FALSE, "")

BornYearGens == {Gen("born_year", "", 0, Y, 0, 0, FALSE, "") : Y \in BornYears}

RetirementGens ==
    {Gen("retirement", "", 0, 0, 0, 0, FALSE, t) : t \in {"2099-01-01", "January 1, 2074"}}

TextKinds == {"bda", "asof", "bbad", "year", "plain", "free", "none"}

\* a month or day field, written with or without a leading zero
Field(n, pad) == IF pad THEN Pad(str(n), 2) ELSE str(n)

\* the text the fields are written as
Render(gi) ==
    CASE gi.kind = "bda" ->
            gi.pfx \o "|" \o Pad(str(gi.Y), 4) \o "|" \o Field(gi.M, gi.pad)
                   \o "|" \o Field(gi.D, gi.pad) \o gi.tail
      [] gi.kind \in {"asof", "bbad"} ->
            gi.pfx \o "|" \o str(gi.A) \o "|" \o Pad(str(gi.Y), 4) \o "|"
                   \o Field(gi.M, gi.pad) \o "|" \o Field(gi.D, gi.pad) \o gi.tail
      [] gi.kind = "year"  -> gi.pfx \o "|" \o str(gi.Y) \o gi.tail
      [] gi.kind = "plain" -> Pad(str(gi.Y), 4)
      [] OTHER -> gi.tail

Instants ==
    {Dt(y, md[1], md[2], sec) :
        y \in 2024..(2024 + ClockYears),
        md \in {<<1, 1>>, <<3, 3>>, <<3, 4>>, <<12, 31>>},
        sec \in {0, 43200}}

Births ==
    {NoDt("none"), NoDt("nat"),
     Dt(1, 1, 1, 0), Dt(1950, 3, 4, 0), Dt(1950, 3, 4, 43200), Dt(2024, 1, 1, 0),
     Dt(2024, 2, 29, 0), Dt(2025, 3, 4, 43200), Dt(2030, 6, 1, 0)}

\* what dateutil's parse may answer for a text: a datetime or ParserError
ParseOutcomes ==
    {Raise("ParserError"),
     DateR(1950, 3, 4, 0), DateR(2023, 12, 31, 0), DateR(2024, 1, 1, 0),
     DateR(2024, 1, 2, 0), DateR(2028, 1, 1, 0), DateR(2050, 6, 15, 0),
     DateR(2073, 12, 31, 0), DateR(2074, 1, 1, 0), DateR(2074, 1, 2, 0),
     DateR(2076, 1, 1, 43200), DateR(2099, 1, 1, 0)}

Epoch == Dt(2024, 1, 1, 0)

NoEval == [some |-> FALSE, now |-> Epoch, res |-> NoneR]

-----------------------------------------------------------------------------
(* The state: the last operation run (op), its argument (arg, built from   *)
(* gen; birth for a datetime), the wall clock as last read (today), the    *)
(* parsers the dispatcher invoked (calls), the texts handed to dateutil    *)
(* (handed) and its answer (parsed), what the operation returned (result)  *)
(* and the evaluation of get_age_from_birthday before the last (prev).     *)

TypeOK ==
    /\ op \in {"ready", "extract_birthday_from_infobox_macro",
               "parse_birth_date_and_age", "parse_birth_based_on_age_as_of",
               "parse_birth_year_and_age", "parse_bbad", "parse_rest",
               "extract_age_from_wikitable", "get_age_from_birthday",
               "calculate_age_from_year", "age_from_mandatory_retirement_date"}
    /\ gen \in GenInputs \cup {BirthdayGen} \cup BornYearGens \cup RetirementGens
    /\ result.tag \in {"date", "age", "none", "error"}
    /\ Len(calls) <= 1
    /\ Len(handed) <= 1
    /\ today \in Instants

Init ==
    /\ op = "ready"
    /\ calls = <<>>
    /\ handed = <<>>
    /\ parsed = NoneR
    /\ result = NoneR
    /\ prev = NoEval
    /\ today = Epoch
    /\ \/ /\ gen \in GenInputs \cup RetirementGens
          /\ arg = [none |-> gen.kind = "none", text |-> Render(gen), year |-> 0]
          /\ birth = NoDt("none")
       \/ /\ gen \in BornYearGens
          /\ arg = [none |-> FALSE, text |-> "", year |-> gen.Y]
          /\ birth = NoDt("none")
       \/ /\ gen = BirthdayGen
          /\ arg = [none |-> FALSE, text |-> "", year |-> 0]
          /\ birth \in Births

TextReady == op = "ready" /\ gen.kind \in TextKinds

\* the answers dateutil may give in a call of the parser on the text: any of
\* ParseOutcomes when the parser hands it a text, none to choose otherwise
Answers(parser, text) ==
    IF Apply(parser, text, NoneR).handed = <<>> THEN {NoneR} ELSE ParseOutcomes

\* datetime.today(): the wall clock never runs backwards
ClockReads == {t \in Instants : DeltaDays(t, today) >= 0}

ExtractBirthdayFromInfoboxMacro ==
    /\ TextReady
    /\ \E g \in Answers(Dialect(arg.text), arg.text) :
          LET parser == Dialect(arg.text)
              o      == Apply(parser, arg.text, g)
          IN IF arg.none
             THEN /\ calls' = <<>>
                  /\ handed' = <<>>
                  /\ parsed' = NoneR
                  /\ result' = NoneR
             ELSE /\ calls' = <<parser>>
                  /\ handed' = o.handed
                  /\ parsed' = IF o.handed = <<>> THEN NoneR ELSE g
                  /\ result' = o.res
    /\ op' = "extract_birthday_from_infobox_macro"
    /\ UNCHANGED <<arg, gen, birth, today, prev>>

\* a parser called on the text directly
Direct(parser) ==
    /\ TextReady
    /\ ~arg.none
    /\ \E g \in Answers(parser, arg.text) :
          LET o == Apply(parser, arg.text, g)
          IN /\ handed' = o.handed
             /\ parsed' = IF o.handed = <<>> THEN NoneR ELSE g
             /\ result' = o.res
    /\ op' = parser
    /\ calls' = <<>>
    /\ UNCHANGED <<arg, gen, birth, today, prev>>

ParseBirthDateAndAge == Direct("parse_birth_date_and_age")

ParseBirthBasedOnAgeAsOf == Direct("parse_birth_based_on_age_as_of")

ParseBirthYearAndAge == Direct("parse_birth_year_and_age")

ParseBbad == Direct("parse_bbad")

ParseRest == Direct("parse_rest")

ExtractAgeFromWikitable ==
    /\ TextReady
    /\ result' = extract_age_from_wikitable(~arg.none, arg.text)
    /\ op' = "extract_age_from_wikitable"
    /\ calls' = <<>>
    /\ handed' = <<>>
    /\ parsed' = NoneR
    /\ UNCHANGED <<arg, gen, birth, today, prev>>

GetAgeFromBirthday ==
    /\ gen.kind = "birthday"
    /\ \E t \in ClockReads :
          /\ today' = t
          /\ result' = get_age_from_birthday(birth, t)
    /\ prev' = IF op = "get_age_from_birthday"
               THEN [some |-> TRUE, now |-> today, res |-> result]
               ELSE NoEval
    /\ op' = "get_age_from_birthday"
    /\ UNCHANGED <<arg, gen, calls, handed, parsed, birth>>

CalculateAgeFromYear ==
    /\ gen.kind = "born_year"
    /\ op = "ready"
    /\ \E t \in ClockReads :
          /\ today' = t
          /\ result' = calculate_age_from_year(arg.year, t)
    /\ op' = "calculate_age_from_year"
    /\ UNCHANGED <<arg, gen, calls, handed, parsed, birth, prev>>

AgeFromMandatoryRetirementDate ==
    /\ gen.kind = "retirement"
    /\ op = "ready"
    /\ \E t \in ClockReads, g \in ParseOutcomes :
          /\ today' = t
          /\ parsed' = g
          /\ result' = age_from_mandatory_retirement_date(g, t)
    /\ handed' = <<arg.text>>
    /\ op' = "age_from_mandatory_retirement_date"
    /\ UNCHANGED <<arg, gen, calls, birth, prev>>

Next ==
    \/ ExtractBirthdayFromInfoboxMacro
    \/ ParseBirthDateAndAge
    \/ ParseBirthBasedOnAgeAsOf
    \/ ParseBirthYearAndAge
    \/ ParseBbad
    \/ ParseRest
    \/ ExtractAgeFromWikitable
    \/ GetAgeFromBirthday
    \/ CalculateAgeFromYear
    \/ AgeFromMandatoryRetirementDate

Spec == Init /\ [][Next]_vars

-----------------------------------------------------------------------------
(* Properties.                                                             *)

Dispatched == op = "extract_birthday_from_infobox_macro" /\ ~arg.none

\* the parser ran on arg.text, called directly or by the dispatcher
Ran(parser) == op = parser \/ (Dispatched /\ calls = <<parser>>)

BeginsWith(prefixes) == \E p \in prefixes : startswith(arg.text, p)

ValidDate(y, m, d) ==
    /\ y \in 1..9999
    /\ m \in 1..12
    /\ d \in 1..DaysInMonth(y, m)

\* C1: the dispatcher invokes exactly one parser per text, the first of
\* BirthDateAndAge, BirthBasedOnAgeAsOf, BirthYearAndAge, Bbad, parse_rest
\* whose prefix the text begins with; a text beginning with a BirthDateAndAge
\* prefix only ever reaches parse_birth_date_and_age, whatever follows.
C1_DispatchPriority ==
    Dispatched =>
        /\ Len(calls) = 1
        /\ BeginsWith(BdaPrefixes) => calls = <<"parse_birth_date_and_age">>
        /\ (~BeginsWith(BdaPrefixes) /\ BeginsWith(AsOfPrefixes))
              => calls = <<"parse_birth_based_on_age_as_of">>
        /\ (~BeginsWith(BdaPrefixes \cup AsOfPrefixes) /\ BeginsWith(YearPrefixes))
              => calls = <<"parse_birth_year_and_age">>
        /\ (~BeginsWith(BdaPrefixes \cup AsOfPrefixes \cup YearPrefixes)
               /\ BeginsWith(BbadPrefixes))
              => calls = <<"parse_bbad">>
        /\ ~BeginsWith(BdaPrefixes \cup AsOfPrefixes \cup YearPrefixes \cup BbadPrefixes)
              => calls = <<"parse_rest">>

\* a BirthDateAndAge text that carries a whole Bbad macro was dispatched
C1_Witness ==
    /\ Dispatched
    /\ arg.text = "{{Birth date and age|{{Bbad|73|2023|3|4}}}}"
    /\ calls = <<"parse_birth_date_and_age">>

\* C2: a birth-date-and-age macro written with a valid Y|M|D first, under any
\* of the four prefixes and whatever parameters follow, yields exactly the
\* date Y-M-D, and nothing is handed to dateutil.
C2_BirthDateAndAgeExact ==
    (Ran("parse_birth_date_and_age") /\ gen.kind = "bda"
        /\ ValidDate(gen.Y, gen.M, gen.D))
      => /\ result = DateR(gen.Y, gen.M, gen.D, 0)
         /\ handed = <<>>

\* a leap day under the nowrap prefix, zero-padded, followed by a second
\* year|month|day triple
C2_Witness ==
    /\ Dispatched
    /\ gen.kind = "bda"
    /\ gen.pfx = "{{nowrap|birth date and age"
    /\ gen.pad
    /\ gen.tail = "|2001|9|11}}"
    /\ result = DateR(2024, 2, 29, 0)

AgeAsOfRan ==
    \/ gen.kind = "bbad" /\ Ran("parse_bbad")
    \/ gen.kind = "asof" /\ Ran("parse_birth_based_on_age_as_of")

\* C3 as stated: for a non-negative age A and a valid date Y-M-D the Bbad and
\* birth-based-on-age-as-of macros yield the date (Y - A)-M-D.
C3_Original ==
    (AgeAsOfRan /\ ValidDate(gen.Y, gen.M, gen.D))
      => result = DateR(gen.Y - gen.A, gen.M, gen.D, 0)

\* C3 as amended: they yield (Y - A)-M-D when that is a date of the calendar,
\* and raise ValueError when it is not (Y - A < 1, or 29 February in a year
\* Y - A that is not a leap year).
C3_AgeAsOfWhenDateExists ==
    (AgeAsOfRan /\ ValidDate(gen.Y, gen.M, gen.D))
      => /\ ValidDate(gen.Y - gen.A, gen.M, gen.D)
              => result = DateR(gen.Y - gen.A, gen.M, gen.D, 0)
         /\ ~ValidDate(gen.Y - gen.A, gen.M, gen.D)
              => result = Raise("ValueError")
         /\ handed = <<>>

\* age 4 as of 29 February 2024: 29 February 2020
C3_Witness ==
    /\ AgeAsOfRan
    /\ gen.A = 4
    /\ gen.Y = 2024
    /\ result = DateR(2020, 2, 29, 0)

RetirementRan == op = "age_from_mandatory_retirement_date" /\ parsed.tag = "date"

\* (retirement_date - now).days
DaysToRetirement == DeltaDays(parsed, today)

\* C4: with years_to_retirement = days / 365.25, the operation raises and
\* returns no age when years_to_retirement <= 0 or >= 50, and returns the
\* integer part of 75 - years_to_retirement when 0 < years_to_retirement < 50
\* (stated in quarter days: 365.25 days are 1461 of them).
C4_RetirementWindow ==
    RetirementRan =>
        /\ (4 * DaysToRetirement <= 0 \/ 4 * DaysToRetirement >= 50 * 1461)
              => result.tag = "error"
        /\ (4 * DaysToRetirement > 0 /\ 4 * DaysToRetirement < 50 * 1461)
              => /\ result.tag = "age"
                 /\ 1461 * result.age <= 75 * 1461 - 4 * DaysToRetirement
                 /\ 75 * 1461 - 4 * DaysToRetirement < 1461 * (result.age + 1)

\* the last day inside the window: 18262 days, age 25
C4_Witness ==
    /\ RetirementRan
    /\ DaysToRetirement = 18262
    /\ result = AgeR(25)

\* the index of the first | of the text, and of the first } from there on
FirstBar(t) == CHOOSE i \in 0..(Len(t) - 1) :
                  Ch(t, i) = "|" /\ \A k \in 0..(i - 1) : Ch(t, k) # "|"

FirstBraceAfterBar(t) == CHOOSE j \in FirstBar(t)..(Len(t) - 1) :
                  Ch(t, j) = "}" /\ \A k \in FirstBar(t)..(j - 1) : Ch(t, k) # "}"

HasBarThenBrace(t) ==
    \E i \in 0..(Len(t) - 1) : Ch(t, i) = "|" /\ \E j \in i..(Len(t) - 1) : Ch(t, j) = "}"

\* the text between the first | and the first following }
Between(t) == Slice(t, FirstBar(t) + 1, FirstBraceAfterBar(t))

\* the macro's prefix matched and its numeric pattern is absent
AgeAsOfMalformed ==
    \/ /\ Ran("parse_bbad")
       /\ BeginsWith(BbadPrefixes)
       /\ ~SearchAgeYmd(arg.text, 0, FALSE).found
    \/ /\ Ran("parse_birth_based_on_age_as_of")
       /\ BeginsWith(AsOfPrefixes)
       /\ ~SearchAgeYmd(arg.text, 0, TRUE).found

BdaMalformed ==
    /\ Ran("parse_birth_date_and_age")
    /\ BeginsWith(BdaPrefixes)
    /\ ~SearchBda(arg.text, 0).found

\* C5 as stated: without its numeric pattern parse_birth_date_and_age hands
\* the text between the first | and the first following } to dateutil, returns
\* its answer and fails only if dateutil fails; parse_bbad and
\* parse_birth_based_on_age_as_of raise.
C5_Original ==
    /\ BdaMalformed
          => /\ Len(handed) = 1
             /\ strip(handed[1]) = strip(Between(arg.text))
             /\ result = parsed
    /\ AgeAsOfMalformed => result.tag = "error"

\* C5 as amended: it does so when the text has a | and a } after it, handing
\* over the text between them stripped of surrounding whitespace; when the
\* text has no | or no } after the first |, parse_birth_date_and_age itself
\* raises ValueError and hands nothing to dateutil.
C5_MalformedMacroBody ==
    /\ (BdaMalformed /\ HasBarThenBrace(arg.text))
          => /\ handed = <<strip(Between(arg.text))>>
             /\ result = parsed
    /\ (BdaMalformed /\ ~HasBarThenBrace(arg.text))
          => /\ handed = <<>>
             /\ result = Raise("ValueError")
    /\ AgeAsOfMalformed
          => /\ result.tag = "error"
             /\ result.err \in {"Exception", "AssertionError"}
             /\ handed = <<>>

\* the fallback handed a date text to dateutil and returned its answer
C5_Witness ==
    /\ BdaMalformed
    /\ arg.text = "{{birth date and age| March 4, 1950 }}"
    /\ handed = <<"March 4, 1950">>
    /\ result = DateR(1950, 3, 4, 0)

\* C6: get_age_from_birthday returns floor((now - date).days / 365.25) for a
\* date and None for None or NaT; calculate_age_from_year(year) returns what
\* get_age_from_birthday returns for 1 January of that year.
C6_AgeFormula ==
    /\ (op = "get_age_from_birthday" /\ birth.kind = "date")
          => /\ result.tag = "age"
             /\ 1461 * result.age <= 4 * DeltaDays(today, birth)
             /\ 4 * DeltaDays(today, birth) < 1461 * (result.age + 1)
    /\ (op = "get_age_from_birthday" /\ birth.kind # "date") => result = NoneR
    /\ (op = "calculate_age_from_year" /\ arg.year \in 1..9999)
          => /\ result.tag = "age"
             /\ result = get_age_from_birthday(Dt(arg.year, 1, 1, 0), today)

\* born 4 March 1950, evaluated on 1 January 2024: 73
C6_Witness ==
    /\ op = "get_age_from_birthday"
    /\ birth = Dt(1950, 3, 4, 0)
    /\ today = Dt(2024, 1, 1, 0)
    /\ result = AgeR(73)

AgeProduced ==
    /\ op \in {"get_age_from_birthday", "calculate_age_from_year",
               "age_from_mandatory_retirement_date", "extract_age_from_wikitable"}
    /\ result.tag = "age"

\* C7 as stated: every age the age operations produce is non-negative.
C7_Original == AgeProduced => result.age >= 0

\* C7 as amended: every age they produce is non-negative, provided the date
\* given to get_age_from_birthday, or 1 January of the year given to
\* calculate_age_from_year, is not later than now.
C7_AgeNonNegative ==
    /\ (AgeProduced /\ op = "get_age_from_birthday" /\ DeltaDays(today, birth) >= 0)
          => result.age >= 0
    /\ (AgeProduced /\ op = "calculate_age_from_year"
           /\ DeltaDays(today, Dt(arg.year, 1, 1, 0)) >= 0)
          => result.age >= 0
    /\ (AgeProduced /\ op \in {"age_from_mandatory_retirement_date",
                               "extract_age_from_wikitable"})
          => result.age >= 0

\* the year that begins now: age 0
C7_Witness ==
    /\ op = "calculate_age_from_year"
    /\ arg.year = 2024
    /\ today = Dt(2024, 1, 1, 0)
    /\ result = AgeR(0)

PlainYearRan == gen.kind = "plain" /\ Ran("parse_rest")

\* C8 as stated: a text of exactly 4 digits parses to 1 January of that year,
\* and the year of the result, written out and parsed again, is the same year.
C8_Original ==
    PlainYearRan =>
        /\ result = DateR(gen.Y, 1, 1, 0)
        /\ \A g \in ParseOutcomes :
              /\ parse_rest(str(result.y), g).res.tag = "date"
              /\ parse_rest(str(result.y), g).res.y = result.y

\* C8 as amended: a text of 4 digits other than 0000 parses to 1 January of
\* that year and 0000 raises ValueError; for a year of 1000 or more the year
\* of the result is written as the same 4 digits and parses to the same date;
\* a smaller year is written with fewer than 4 digits and leaves the year-only
\* path (the text goes to dateutil).
C8_YearOnlyRoundTrip ==
    PlainYearRan =>
        /\ gen.Y >= 1 => result = DateR(gen.Y, 1, 1, 0)
        /\ gen.Y = 0 => result = Raise("ValueError")
        /\ gen.Y >= 1000
              => /\ str(result.y) = arg.text
                 /\ \A g \in ParseOutcomes :
                       parse_rest(str(result.y), g) = Out(result, <<>>)
        /\ gen.Y \in 1..999
              => /\ Len(str(result.y)) < 4
                 /\ \A g \in ParseOutcomes :
                       parse_rest(str(result.y), g) = Out(g, <<str(result.y)>>)
        /\ handed = <<>>

C8_Witness ==
    /\ PlainYearRan
    /\ arg.text = "1950"
    /\ result = DateR(1950, 1, 1, 0)

\* C9: for a fixed birth date, an earlier now never gives a greater age.
C9_AgeMonotone ==
    (op = "get_age_from_birthday" /\ prev.some /\ birth.kind = "date"
        /\ DeltaDays(today, prev.now) >= 0)
      => prev.res.age <= result.age

\* the day before the 74th birthday and the birthday
C9_Witness ==
    /\ op = "get_age_from_birthday"
    /\ prev.some
    /\ birth = Dt(1950, 3, 4, 0)
    /\ prev.res = AgeR(73)
    /\ result = AgeR(74)

\* C10: outside the 4-digit and circa forms parse_rest hands dateutil the
\* text with one leading "c. " removed and every other character unchanged.
C10_OnlyLeadingCStripped ==
    (Ran("parse_rest") /\ gen.kind # "plain" /\ ~startswith(arg.text, "{{circa"))
      => handed = <<IF startswith(arg.text, "c. ")
                    THEN Slice(arg.text, 3, Len(arg.text))
                    ELSE arg.text>>

=============================================================================
